---- MODULE Spec2Model ----
(***************************************************************************)
(* A model of two parts of pedis:                                          *)
(*                                                                         *)
(*   src/structures/sset_lsa.hh  the sorted set sset_lsa: a dictionary     *)
(*                               (_dict, ordered by key) and a score list  *)
(*                               (_list) threaded through the same         *)
(*                               sset_entry objects;                       *)
(*   src/store/table/table.cc    block_reader, sstable_reader and          *)
(*                               combined_sstables_reader.                 *)
(*                                                                         *)
(* Conventions.                                                            *)
(*  - An sset_entry is an object id 1, 2, ...: _key[e] and _score[e] are   *)
(*    its fields; ids are never reused, so an id in `freed` is a pointer   *)
(*    to released memory.                                                  *)
(*  - Keys of the sorted set are 1..NumKeys with the integer order for     *)
(*    sset_entry::compare; scores are small integers standing for the      *)
(*    doubles (no NaN).                                                    *)
(*  - Undefined behaviour has the outcomes named where it occurs: a read   *)
(*    of a released entry either sees the old bytes ("stale") or faults    *)
(*    ("fault"); unlinking a node that is in no container, and erasing     *)
(*    end(), abort the process (crashed).                                  *)
(*  - table.cc spells one field several ways (restarts_, restarts_offset,  *)
(*    _restarts_offset; current_, _current_offset; ...).  The model reads  *)
(*    each family of names as the one field of the block layout they       *)
(*    stand for, and keeps conditions, branches and the order of the       *)
(*    statements as written.                                               *)
(***************************************************************************)
EXTENDS Integers, Sequences, FiniteSets, TLC

\* ---------------------------------------------------------------- bounds

NumKeys == 2
MaxScore == 2
MaxAlloc == 3
MaxBatch == 2
MaxByte == 2
MaxKeyLen == 2
MaxEntries == 3
MaxInterval == 2
MaxTableEntries == 3
MaxBlockSize == 2
MaxMergedEntries == 2
MaxWalk == 5
NumTables == 2
MaxOpens == 2
kEncodedLength == 2

Keys == 1..NumKeys
Scores == 0..MaxScore
Deltas == {-1, 1, 2}
RankArgs == (0 - MaxAlloc - 1)..MaxAlloc
Limits == 0..MaxAlloc

\* ------------------------------------------------------------- variables

VARIABLES
    _dict,      \* sset_lsa::_dict: the entries linked in the dictionary
    _list,      \* sset_lsa::_list: the entries of the score list, head first
    _key,       \* sset_entry::_key of every entry constructed so far
    _score,     \* sset_entry::_score of every entry constructed so far
    freed,      \* entries released by a disposer
    crashed,    \* the process aborted (assertion, fault)
    updating,   \* the call that changes a score, while it runs: its name and
                \* arguments, its entry, the new score, the statement it is
                \* at (else empty)
    op,         \* the last public call: its name, its arguments (of an
                \* inserting call on a map: how many) and its result
    block,      \* a block: the entries it was built from and its bytes
    it,         \* a block_reader over that block
    tables,     \* the tables read: their data blocks' entries, file, index block
    _readers,   \* an sstable_reader per table
    _current,   \* combined_sstables_reader::_current: a reader, or 0 (nullptr)
    _eof,       \* combined_sstables_reader::_eof
    _block_cache,   \* the handle keys of the blocks the block cache holds
    walk,       \* the positioning call the present traversal began with
    emitted,    \* what current() returned at each position of the traversal
    pending,    \* the reads of data blocks in flight, each with the call of an
                \* sstable_reader that continues when it completes
    opening,    \* the calls of open_sstable that have not completed
    _table_cache    \* the files whose table the table cache holds

ssetVars == <<_dict, _list, _key, _score, freed, crashed, updating>>
blockVars == <<block, it>>
walkVars == <<walk, emitted>>
readerVars == <<tables, _readers, _current, _eof, _block_cache>>
asyncVars == <<pending, opening, _table_cache>>
tableVars == <<block, it, tables, _readers, _current, _eof, _block_cache,
               walk, emitted, pending, opening, _table_cache>>
vars == <<_dict, _list, _key, _score, freed, crashed, updating, op,
          block, it, tables, _readers, _current, _eof, _block_cache,
          walk, emitted, pending, opening, _table_cache>>

\* ------------------------------------------------------------- utilities

\* The record kept in op: the public member function called last, the
\* arguments it was given and what it returned.
Call(name, args, ret) == [name |-> name, args |-> args, ret |-> ret]

Min(S) == CHOOSE x \in S : \A y \in S : x <= y

Range(q) == {q[i] : i \in 1..Len(q)}

\* Sequences over S of length at most n.
SeqUpTo(S, n) == UNION {[1..m -> S] : m \in 0..n}

NoRepeat(q) == \A i, j \in 1..Len(q) : i # j => q[i] # q[j]

\* The sequence q without its element at position i.
RemoveAt(q, i) == SubSeq(q, 1, i - 1) \o SubSeq(q, i + 1, Len(q))

\* The position of x in q (x occurs in q).
IndexOf(q, x) == Min({i \in 1..Len(q) : q[i] = x})

\* ============================================================ sorted set

\* The sorted set as one value; ret is the result of the call it went through.
State ==
    [_dict |-> _dict, _list |-> _list, _key |-> _key, _score |-> _score,
     freed |-> freed, crashed |-> crashed, ret |-> "void"]

\* Entries of the dictionary whose memory was released.
Dangling(s) == s._dict \cap s.freed

Crash(s) == [s EXCEPT !.crashed = TRUE, !.ret = "crash"]

\* _dict.find(key, compare): the entries of the dictionary with that key (the
\* dictionary never holds two).
find(s, k) == {e \in s._dict : s._key[e] = k}

\* construct<sset_entry>(key, score): a new object.
construct(s, k, sc) ==
    [s EXCEPT !._key = Append(@, k), !._score = Append(@, sc)]

NewEntry(s) == Len(s._key) + 1

\* The branch of insert_ordered, lines 486-515, that links e into l: the
\* push_front of line 492, the insert of line 499 in the scan, and after
\* the scan the push_front of line 506 or the push_back of line 509.
insert_ordered_branch(l, e, sc) ==
    IF l = <<>> \/ sc[e] < sc[l[1]] THEN "push_front"
    ELSE IF \E i \in 1..Len(l) : sc[l[i]] > sc[e] THEN "insert"
    ELSE IF sc[l[Len(l)]] > sc[e] THEN "push_front after the scan"
    ELSE "push_back"

\* insert_ordered comparing with >= where the source compares with >: the
\* entry goes before the entries of its own score.
insert_ordered_before_equal(l, e, sc) ==
    IF l = <<>> \/ sc[e] <= sc[l[1]]
    THEN <<e>> \o l
    ELSE LET ge == {i \in 1..Len(l) : sc[l[i]] >= sc[e]}
         IN IF ge # {}
            THEN LET i == Min(ge)
                 IN SubSeq(l, 1, i - 1) \o <<e>> \o SubSeq(l, i, Len(l))
            ELSE l \o <<e>>

\* insert_ordered without its scan: an entry that does not go to the head is
\* pushed to the back.
insert_ordered_no_scan(l, e, sc) ==
    IF l = <<>> \/ sc[e] < sc[l[1]] THEN <<e>> \o l ELSE l \o <<e>>

\* insert_ordered, lines 486-515: the list after linking e (score sc[e]).
insert_ordered(l, e, sc) ==
    IF l = <<>> \/ sc[e] < sc[l[1]]
    THEN <<e>> \o l
    ELSE LET gt == {i \in 1..Len(l) : sc[l[i]] > sc[e]}
         IN IF gt # {}
            THEN LET i == Min(gt)
                 IN SubSeq(l, 1, i - 1) \o <<e>> \o SubSeq(l, i, Len(l))
            ELSE IF sc[l[Len(l)]] > sc[e]
                 THEN <<e>> \o l
                 ELSE l \o <<e>>

\* _list.erase(lit): unlink e; a node that is in no list has null links.
list_erase(s, e) ==
    IF e \in Range(s._list)
    THEN [s EXCEPT !._list = RemoveAt(@, IndexOf(@, e))]
    ELSE Crash(s)

\* _list.erase_and_dispose(lit, deleter): unlink and release e.
list_erase_and_dispose(s, e) ==
    IF e \in Range(s._list)
    THEN [s EXCEPT !._list = RemoveAt(@, IndexOf(@, e)), !.freed = @ \cup {e}]
    ELSE Crash(s)

\* insert(e), lines 156-164: insert_ordered always links e and returns true;
\* _dict.insert then refuses an entry whose key is there.
insert(s, e, uaf) ==
    LET s2 == [s EXCEPT !._list = insert_ordered(@, e, s._score)]
    IN IF uaf = "fault" /\ Dangling(s) # {}
       THEN Crash(s2)
       ELSE IF find(s, s._key[e]) # {}
            THEN [s2 EXCEPT !.ret = FALSE]
            ELSE [s2 EXCEPT !._dict = @ \cup {e}, !.ret = TRUE]

\* update(e), lines 517-522.
update(s, e) ==
    LET s2 == list_erase(s, e)
    IN IF s2.crashed THEN s2
       ELSE [s2 EXCEPT !._list = insert_ordered(@, e, s2._score), !.ret = TRUE]

\* insert_if_not_exists, lines 166-183, from the i-th member on; s.ret counts.
RECURSIVE insert_if_not_exists(_, _, _, _)
insert_if_not_exists(s, members, i, uaf) ==
    IF s.crashed \/ i > Len(members) THEN s
    ELSE IF uaf = "fault" /\ Dangling(s) # {} THEN Crash(s)
    ELSE IF find(s, members[i][1]) # {}
         THEN insert_if_not_exists(s, members, i + 1, uaf)
         ELSE LET e == NewEntry(s)
                  r == insert(construct(s, members[i][1], members[i][2]), e, uaf)
              IN IF r.crashed THEN r
                 ELSE IF r.ret
                      THEN insert_if_not_exists([r EXCEPT !.ret = s.ret + 1],
                                                members, i + 1, uaf)
                      ELSE insert_if_not_exists(
                               [r EXCEPT !.freed = @ \cup {e}, !.ret = s.ret],
                               members, i + 1, uaf)

\* update_if_only_exists, lines 185-203.
RECURSIVE update_if_only_exists(_, _, _, _)
update_if_only_exists(s, members, i, uaf) ==
    IF s.crashed \/ i > Len(members) THEN s
    ELSE IF uaf = "fault" /\ Dangling(s) # {} THEN Crash(s)
    ELSE IF find(s, members[i][1]) = {}
         THEN update_if_only_exists(s, members, i + 1, uaf)
         ELSE LET e == CHOOSE x \in find(s, members[i][1]) : TRUE
                  s2 == list_erase(s, e)
                  s3 == [s2 EXCEPT !._score[e] = members[i][2]]
                  s4 == [s3 EXCEPT !._list = insert_ordered(@, e, s3._score),
                                   !.ret = s.ret + 1]
              IN IF s2.crashed THEN s2
                 ELSE update_if_only_exists(s4, members, i + 1, uaf)

\* insert_or_update(key, delta), lines 205-219.
insert_or_update(s, k, delta, uaf) ==
    IF uaf = "fault" /\ Dangling(s) # {} THEN Crash(s)
    ELSE IF find(s, k) # {}
         THEN LET e == CHOOSE x \in find(s, k) : TRUE
                  result == delta + s._score[e]
                  s2 == [s EXCEPT !._score[e] = result]
                  s3 == update(s2, e)
              IN IF s3.crashed THEN s3 ELSE [s3 EXCEPT !.ret = result]
         ELSE LET r == insert(construct(s, k, delta), NewEntry(s), uaf)
              IN IF r.crashed THEN r ELSE [r EXCEPT !.ret = delta]

\* insert_or_update(members), lines 221-242.
RECURSIVE insert_or_update_members(_, _, _, _)
insert_or_update_members(s, members, i, uaf) ==
    IF s.crashed \/ i > Len(members) THEN s
    ELSE IF uaf = "fault" /\ Dangling(s) # {} THEN Crash(s)
    ELSE IF find(s, members[i][1]) # {}
         THEN LET e == CHOOSE x \in find(s, members[i][1]) : TRUE
                  s2 == [s EXCEPT !._score[e] = members[i][2]]
                  s3 == update(s2, e)
              IN IF s3.crashed THEN s3
                 ELSE insert_or_update_members([s3 EXCEPT !.ret = s.ret + 1],
                                               members, i + 1, uaf)
         ELSE LET r == insert(construct(s, members[i][1], members[i][2]),
                              NewEntry(s), uaf)
              IN IF r.crashed THEN r
                 ELSE insert_or_update_members(
                          [r EXCEPT !.ret = IF r.ret THEN s.ret + 1 ELSE s.ret],
                          members, i + 1, uaf)

\* update_score(key, delta), lines 350-360.
update_score(s, k, delta, uaf) ==
    IF uaf = "fault" /\ Dangling(s) # {} THEN Crash(s)
    ELSE IF find(s, k) = {} THEN [s EXCEPT !.ret = FALSE]
    ELSE LET e == CHOOSE x \in find(s, k) : TRUE
             s2 == list_erase(s, e)
             s3 == [s2 EXCEPT !._score[e] = delta]
         IN IF s2.crashed THEN s2
            ELSE [s3 EXCEPT !._list = insert_ordered(@, e, s3._score),
                            !.ret = TRUE]

\* erase(entries), lines 362-371: _dict.erase of a node that is in no
\* dictionary aborts.
RECURSIVE erase_entries(_, _, _)
erase_entries(s, entries, i) ==
    IF s.crashed THEN s
    ELSE IF i > Len(entries) THEN [s EXCEPT !.ret = Len(entries)]
    ELSE IF entries[i] \notin s._dict THEN Crash(s)
    ELSE erase_entries(
             list_erase_and_dispose([s EXCEPT !._dict = @ \ {entries[i]}],
                                    entries[i]),
             entries, i + 1)

\* erase(keys), lines 373-387; s.ret counts.
RECURSIVE erase_keys(_, _, _, _)
erase_keys(s, keys, i, uaf) ==
    IF s.crashed \/ i > Len(keys) THEN s
    ELSE IF uaf = "fault" /\ Dangling(s) # {} THEN Crash(s)
    ELSE IF find(s, keys[i]) = {} THEN erase_keys(s, keys, i + 1, uaf)
    ELSE LET e == CHOOSE x \in find(s, keys[i]) : TRUE
             s2 == list_erase_and_dispose([s EXCEPT !._dict = @ \ {e}], e)
         IN IF s2.crashed THEN s2
            ELSE erase_keys([s2 EXCEPT !.ret = s.ret + 1], keys, i + 1, uaf)

\* erase(key), lines 447-453: _dict.erase(it) returns the iterator AFTER the
\* erased element, and that element is what the list then unlinks and
\* releases; _dict.erase(end()) for a key that is not there aborts.
erase(s, k, uaf) ==
    IF uaf = "fault" /\ Dangling(s) # {} THEN Crash(s)
    ELSE IF find(s, k) = {} THEN Crash(s)
    ELSE LET e == CHOOSE x \in find(s, k) : TRUE
             s2 == [s EXCEPT !._dict = @ \ {e}]
             after == {x \in s2._dict : s._key[x] > k}
         IN IF after = {} THEN s2
            ELSE LET removed == CHOOSE x \in after :
                                    \A y \in after : s._key[x] <= s._key[y]
                 IN list_erase_and_dispose(s2, removed)

\* flush_all, lines 151-154: only the list is cleared and its entries
\* released; the dictionary keeps its nodes.  With assertions on, the
\* destructor of a set hook that is still linked aborts.
flush_all(s, build) ==
    IF Range(s._list) \cap s._dict # {} /\ build = "assert"
    THEN Crash(s)
    ELSE [s EXCEPT !._list = <<>>, !.freed = @ \cup Range(s._list)]

\* ---------------------------------------------------------------- queries

size(s) == Len(s._list)

\* empty(), lines 442-445.
empty(s) == s._list = <<>>

\* The (key, score) pairs of a sequence of entries.
Pairs(s, q) == [i \in 1..Len(q) |-> <<s._key[q[i]], s._score[q[i]]>>] \o <<>>

\* score(key), lines 467-474: optional<double> as <<>> or <<score>>.
score(s, k) ==
    IF find(s, k) = {} THEN <<>>
    ELSE <<s._score[CHOOSE x \in find(s, k) : TRUE]>>

\* rank_out_of_range, lines 481-484.
rank_out_of_range(l, begin, end) == begin > Len(l) \/ end <= 0

\* while (end < 0) end += size, lines 251 and 284 (size > 0).
RECURSIVE WhileNegativeAdd(_, _)
WhileNegativeAdd(end, n) == IF end < 0 THEN WhileNegativeAdd(end + n, n) ELSE end

\* fetch_by_rank, lines 277-308 (and 244-275, the same steps): the entries
\* pushed, in order.
fetch_by_rank(l, begin, end) ==
    IF l = <<>> THEN <<>>
    ELSE LET n == Len(l)
             b1 == IF begin < 0 THEN begin + n ELSE begin
             e1 == WhileNegativeAdd(end, n)
             b2 == IF b1 < 0 THEN 0 ELSE b1
             b3 == IF b2 > n THEN n ELSE b2
         IN IF b2 > e1 THEN <<>>
            ELSE IF rank_out_of_range(l, b3, e1) THEN <<>>
            ELSE LET ranks == {r \in 0..(n - 1) : r >= b3 /\ r <= e1}
                 IN IF ranks = {} THEN <<>>
                    ELSE SubSeq(l, Min(ranks) + 1,
                                Min(ranks) + Cardinality(ranks))

\* rank(key), lines 455-465: optional<size_t> as <<>> or <<rank>>.  The loop
\* of line 461 stops only at the entry's own node: for an entry that is in no
\* list it goes round the circular list without end.
rank(s, k, uaf) ==
    IF uaf = "fault" /\ Dangling(s) # {} THEN Crash(s)
    ELSE IF find(s, k) = {} THEN [s EXCEPT !.ret = <<>>]
    ELSE LET e == CHOOSE x \in find(s, k) : TRUE
         IN IF e \in Range(s._list)
            THEN [s EXCEPT !.ret = <<IndexOf(s._list, e) - 1>>]
            ELSE [s EXCEPT !.crashed = TRUE, !.ret = "hang"]

\* score_out_of_range, lines 476-479 (the list is not empty).
score_out_of_range(s, min, max) ==
    min > s._score[s._list[Len(s._list)]] \/ max < s._score[s._list[1]]

\* The loop of fetch_by_score, lines 321-336, from the i-th entry of the
\* list on; entries is what was pushed so far.
RECURSIVE FetchLoop(_, _, _, _, _, _)
FetchLoop(s, min, max, limit, i, entries) ==
    IF i > Len(s._list) THEN entries
    ELSE IF s._score[s._list[i]] < min
         THEN FetchLoop(s, min, max, limit, i + 1, entries)
    ELSE IF s._score[s._list[i]] > max THEN entries
    ELSE IF Len(entries) + 1 >= limit THEN Append(entries, s._list[i])
    ELSE FetchLoop(s, min, max, limit, i + 1, Append(entries, s._list[i]))

\* The same loop with the limit tested before the entry is pushed.
fetch_by_score_limit_first(s, min, max, limit) ==
    IF s._list = <<>> THEN <<>>
    ELSE IF score_out_of_range(s, min, max) THEN <<>>
    ELSE LET all == FetchLoop(s, min, max, Len(s._list), 1, <<>>)
         IN IF limit = 0 THEN all
            ELSE SubSeq(all, 1, Min({Len(all), limit - 1}))

\* fetch_by_score, lines 310-337: the entries pushed, in order.
fetch_by_score(s, min, max, limit) ==
    IF s._list = <<>> THEN <<>>
    ELSE IF score_out_of_range(s, min, max) THEN <<>>
    ELSE FetchLoop(s, min, max, IF limit = 0 THEN Len(s._list) ELSE limit,
                   1, <<>>)

\* The loop of count_by_score, lines 398-409.
RECURSIVE CountLoop(_, _, _, _, _)
CountLoop(s, min, max, i, count) ==
    IF i > Len(s._list) THEN count
    ELSE IF s._score[s._list[i]] < min THEN CountLoop(s, min, max, i + 1, count)
    ELSE IF s._score[s._list[i]] > max THEN count
    ELSE CountLoop(s, min, max, i + 1, count + 1)

\* count_by_score, lines 389-411.  It is _dict that is tested for empty; on
\* an empty list score_out_of_range reads the list's header node as an
\* entry: whatever score is found there the loop then counts nothing, unless
\* the read faults.
count_by_score(s, min, max, uaf) ==
    IF s._dict = {} THEN [s EXCEPT !.ret = 0]
    ELSE IF s._list = <<>>
         THEN IF uaf = "fault" THEN Crash(s) ELSE [s EXCEPT !.ret = 0]
    ELSE IF score_out_of_range(s, min, max) THEN [s EXCEPT !.ret = 0]
    ELSE [s EXCEPT !.ret = CountLoop(s, min, max, 1, 0)]

\* ================================================================ blocks

\* The bytes keys are made of, and the keys: bytes strings of 1..MaxKeyLen.
Bytes == 1..MaxByte
BlockKeys == UNION {[1..n -> Bytes] : n \in 1..MaxKeyLen}
Values == {<<>>, <<7>>}

\* The bytewise comparator: < 0, 0 or > 0.
compare(a, b) ==
    LET n == Min({Len(a), Len(b)})
        d == {i \in 1..n : a[i] # b[i]}
    IN IF d # {} THEN (IF a[Min(d)] < b[Min(d)] THEN -1 ELSE 1)
       ELSE IF Len(a) < Len(b) THEN -1
       ELSE IF Len(a) > Len(b) THEN 1
       ELSE 0

\* Sequences of at most n entries (key, value) with strictly increasing keys.
EntrySeqs(n) ==
    {E \in SeqUpTo([key : BlockKeys, value : Values], n) :
        \A i \in 1..(Len(E) - 1) : compare(E[i].key, E[i + 1].key) < 0}

RECURSIVE Flatten(_)
Flatten(qs) == IF qs = <<>> THEN <<>> ELSE Head(qs) \o Flatten(Tail(qs))

\* A 32-bit little-endian integer, and its decoding at offset off of d.
Fixed32(n) == <<n % 256, (n \div 256) % 256, (n \div 65536) % 256, n \div 16777216>>

decode_fixed32(d, off) ==
    d[off + 1] + 256 * d[off + 2] + 65536 * d[off + 3] + 16777216 * d[off + 4]

\* The length of the longest common prefix of two keys.
CommonPrefix(a, b) ==
    LET n == Min({Len(a), Len(b)})
        d == {i \in 1..n : a[i] # b[i]}
    IN IF d = {} THEN n ELSE Min(d) - 1

\* The block layout: the i-th entry of E as varint shared, varint non_shared,
\* varint value_length (each below 128: one byte), the key bytes that are not
\* shared with the previous key, the value; every interval-th entry is a
\* restart point and shares nothing.
EntryBytes(E, i, interval) ==
    LET sh == IF (i - 1) % interval = 0 THEN 0
              ELSE CommonPrefix(E[i - 1].key, E[i].key)
        k == E[i].key
    IN <<sh, Len(k) - sh, Len(E[i].value)>> \o SubSeq(k, sh + 1, Len(k))
           \o E[i].value

EntryOffset(E, i, interval) ==
    Len(Flatten([j \in 1..(i - 1) |-> EntryBytes(E, j, interval)]))

\* A block body: the entries, the restart offsets (the first is offset 0, of
\* an empty block too), their count.
BuildBlock(E, interval) ==
    LET body == Flatten([i \in 1..Len(E) |-> EntryBytes(E, i, interval)])
        rs == IF E = <<>> THEN <<0>>
              ELSE [r \in 1..((Len(E) - 1) \div interval + 1) |->
                       EntryOffset(E, (r - 1) * interval + 1, interval)]
    IN body \o Flatten([r \in 1..Len(rs) |-> Fixed32(rs[r])])
            \o Fixed32(Len(rs))

\* block::num_restarts() and the offset of the restart array (restarts_).
num_restarts(b) == decode_fixed32(b, Len(b) - 4)

restarts_(b) == Len(b) - (1 + num_restarts(b)) * 4

\* decode_entry(p, limit, &shared, &non_shared, &value_length): the three
\* lengths at offset p and the offset of the key bytes, or nullptr (ok FALSE)
\* when the entry does not fit below limit.
decode_entry(b, p, limit) ==
    IF limit - p < 3
    THEN [ok |-> FALSE, shared |-> 0, non_shared |-> 0, value_length |-> 0,
          key_ptr |-> p]
    ELSE [ok |-> limit - (p + 3) >= b[p + 2] + b[p + 3],
          shared |-> b[p + 1], non_shared |-> b[p + 2],
          value_length |-> b[p + 3], key_ptr |-> p + 3]

\* ---------------------------------------------------------- block_reader

\* block_reader(b, opt), lines 146-157.  _value_view is (offset of its first
\* byte in the block, size).
block_reader(b) ==
    [_block |-> b, _num_restarts |-> num_restarts(b), _restart_index |-> 0,
     _current_offset |-> 0, _current |-> [key |-> <<>>],
     _value_view |-> [data |-> 0, size |-> 0], _eof |-> FALSE]

\* next_entry_offset, lines 213-215.
next_entry_offset(r) == r._value_view.data + r._value_view.size

\* get_restart_point, lines 217-220 (index < _num_restarts at every call: a
\* block has a restart point).
get_restart_point(r, index) ==
    decode_fixed32(r._block, restarts_(r._block) + index * 4)

\* seek_to_restart_point, lines 222-227.
seek_to_restart_point(r, index) ==
    [r EXCEPT !._current.key = <<>>,
              !._restart_index = index,
              !._value_view = [data |-> get_restart_point(r, index), size |-> 0]]

\* The while loop of parse_next_key, lines 247-249.
RECURSIVE AdvanceRestartIndex(_)
AdvanceRestartIndex(r) ==
    IF r._restart_index + 1 < r._num_restarts
       /\ get_restart_point(r, r._restart_index + 1) < r._current_offset
    THEN AdvanceRestartIndex([r EXCEPT !._restart_index = @ + 1])
    ELSE r

\* parse_next_key that forgets the previous key: the key is the literal
\* bytes of the entry alone.
parse_next_key_no_prefix(r) ==
    LET off == next_entry_offset(r)
        r1 == [r EXCEPT !._current_offset = off]
        limit == restarts_(r._block)
        d == decode_entry(r._block, off, limit)
    IN IF off >= limit
       THEN [reader |-> [r1 EXCEPT !._current_offset = limit,
                                   !._restart_index = r._num_restarts],
             ok |-> FALSE]
       ELSE IF ~d.ok \/ Len(r._current.key) < d.shared
            THEN [reader |-> r1, ok |-> FALSE]
            ELSE [reader |-> AdvanceRestartIndex(
                      [r1 EXCEPT
                          !._current.key =
                              SubSeq(r._block, d.key_ptr + 1,
                                     d.key_ptr + d.non_shared),
                          !._value_view = [data |-> d.key_ptr + d.non_shared,
                                           size |-> d.value_length]]),
                  ok |-> TRUE]

\* parse_next_key, lines 229-252: the reader after the call and what the call
\* returned.
parse_next_key(r) ==
    LET off == next_entry_offset(r)
        r1 == [r EXCEPT !._current_offset = off]
        limit == restarts_(r._block)
        d == decode_entry(r._block, off, limit)
    IN IF off >= limit
       THEN [reader |-> [r1 EXCEPT !._current_offset = limit,
                                   !._restart_index = r._num_restarts],
             ok |-> FALSE]
       ELSE IF ~d.ok \/ Len(r._current.key) < d.shared
            THEN [reader |-> r1, ok |-> FALSE]
            ELSE [reader |-> AdvanceRestartIndex(
                      [r1 EXCEPT
                          !._current.key =
                              SubSeq(@, 1, d.shared)
                                  \o SubSeq(r._block, d.key_ptr + 1,
                                            d.key_ptr + d.non_shared),
                          !._value_view = [data |-> d.key_ptr + d.non_shared,
                                           size |-> d.value_length]]),
                  ok |-> TRUE]

\* seek_to_first, lines 158-162.
block_seek_to_first(r) == parse_next_key(seek_to_restart_point(r, 0)).reader

\* The while loop of seek_to_last, line 166.
RECURSIVE ScanToLast(_)
ScanToLast(r) ==
    LET p == parse_next_key(r)
    IN IF p.ok /\ next_entry_offset(p.reader) < restarts_(r._block)
       THEN ScanToLast(p.reader)
       ELSE p.reader

\* seek_to_last, lines 164-168.
block_seek_to_last(r) ==
    ScanToLast(seek_to_restart_point(r, r._num_restarts - 1))

\* The binary search of seek, lines 172-189: the restart point it ends on, or
\* failed when an entry at a restart point does not decode or shares bytes.
RECURSIVE BinarySearch(_, _, _, _)
BinarySearch(r, left, right, target) ==
    IF ~(left < right) THEN [left |-> left, failed |-> FALSE]
    ELSE LET mid == (left + right + 1) \div 2
             region_offset == get_restart_point(r, mid)
             d == decode_entry(r._block, region_offset, restarts_(r._block))
             mid_key == SubSeq(r._block, d.key_ptr + 1, d.key_ptr + d.non_shared)
         IN IF ~d.ok \/ d.shared # 0 THEN [left |-> left, failed |-> TRUE]
            ELSE IF compare(mid_key, target) < 0
                 THEN BinarySearch(r, mid, right, target)
                 ELSE BinarySearch(r, left, mid - 1, target)

\* The linear search that stops only at a key greater than the target.
RECURSIVE LinearSearch_greater(_, _)
LinearSearch_greater(r, key) ==
    LET p == parse_next_key(r)
    IN IF ~p.ok THEN p.reader
       ELSE IF compare(p.reader._current.key, key) > 0 THEN p.reader
       ELSE LinearSearch_greater(p.reader, key)

\* The linear search of seek, lines 192-199.
RECURSIVE LinearSearch(_, _)
LinearSearch(r, key) ==
    LET p == parse_next_key(r)
    IN IF ~p.ok THEN p.reader
       ELSE IF compare(p.reader._current.key, key) >= 0 THEN p.reader
       ELSE LinearSearch(p.reader, key)

\* seek(key), lines 170-200.
block_seek(r, key) ==
    LET s == BinarySearch(r, 0, r._num_restarts - 1, key)
    IN IF s.failed THEN [r EXCEPT !._eof = TRUE]
       ELSE LinearSearch(seek_to_restart_point(r, s.left), key)

\* next, lines 202-205.
block_next(r) == parse_next_key(r).reader

\* eof, lines 209-211.
block_eof(r) == r._current_offset >= restarts_(r._block) \/ r._eof

\* current, lines 206-208: the key rebuilt by parse_next_key and the bytes
\* _value_view covers.
block_current(r) ==
    [key |-> r._current.key,
     value |-> SubSeq(r._block, r._value_view.data + 1,
                      r._value_view.data + r._value_view.size)]

\* The empty block.
NoBlock == [entries |-> <<>>, data |-> BuildBlock(<<>>, 1)]

\* ---------------------------------------------------------------- tables

\* block_handle: varint offset, varint size (each below 128: one byte), and
\* block_handle::decode_from, which fails on a truncated value.
encode_handle(offset, sz) == <<offset, sz>>

decode_from(v) ==
    IF Len(v) >= 2 THEN [ok |-> TRUE, offset |-> v[1], size |-> v[2]]
    ELSE [ok |-> FALSE, offset |-> 0, size |-> 0]

\* The entries E cut into data blocks of k entries (the last may be shorter).
Chunks(E, k) ==
    [j \in 1..((Len(E) + k - 1) \div k) |->
        SubSeq(E, (j - 1) * k + 1, Min({j * k, Len(E)}))]

\* A table file: the data blocks one after the other, and the index block,
\* which maps the last key of each data block to the handle of that block.
BuildTable(E, k, interval) ==
    LET chunks == Chunks(E, k)
        datas == [j \in 1..Len(chunks) |-> BuildBlock(chunks[j], interval)]
        offset(j) == Len(Flatten(SubSeq(datas, 1, j - 1)))
        index == [j \in 1..Len(chunks) |->
                     [key |-> chunks[j][Len(chunks[j])].key,
                      value |-> encode_handle(offset(j), Len(datas[j]))]]
    IN [blocks |-> chunks, file |-> Flatten(datas),
        index |-> BuildBlock(index, 1)]

\* The tables: one data block at least, every value the same byte.
TableEntries ==
    {E \in EntrySeqs(MaxTableEntries) :
        E # <<>> /\ \A i \in 1..Len(E) : E[i].value = <<7>>}

Tables ==
    {BuildTable(E, k, interval) :
        E \in TableEntries, k \in 1..MaxBlockSize, interval \in 1..MaxInterval}

\* The tables a combined reader is given: shorter, keys of full length, every
\* entry a restart point.
MergedTables ==
    {BuildTable(E, k, 1) :
        E \in {F \in TableEntries :
                  /\ Len(F) <= MaxMergedEntries
                  /\ \A i \in 1..Len(F) : Len(F[i].key) = MaxKeyLen},
        k \in 1..MaxBlockSize}

\* read_block, lines 52-60: the bytes of the file the handle covers.
read_block(file, handle) ==
    SubSeq(file, handle.offset + 1, handle.offset + handle.size)

\* --------------------------------------------------------- sstable_reader

\* sstable_reader(ptable), line 266, over table t: the index reader reads the
\* table's index block; there is no data reader until a positioning call
\* (here a reader of an empty block, which no call reads).
sstable_reader(t) ==
    [_table |-> t,
     _index_block_reader |-> block_reader(tables[t].index),
     _data_block_reader |-> block_reader(NoBlock.data),
     _initialized |-> FALSE]

\* Lines 270-283 (and 289-301, 307-319, 327-339): the handle the index reader
\* is on, the block it names (from the cache or from the file, and cached),
\* a reader of that block.  s is the reader and the block cache.
open_data_block(t, s, ix) ==
    LET data_handle == decode_from(block_current(ix).value)
        handle_key == <<t, data_handle.offset>>
        b == read_block(tables[t].file, data_handle)
    IN [rd |-> [s.rd EXCEPT !._index_block_reader = ix,
                            !._data_block_reader = block_reader(b)],
        cache |-> s.cache \cup {handle_key}]

\* seek_to_first, lines 267-285.
sstable_seek_to_first(t, s) ==
    LET o == open_data_block(t, s, block_seek_to_first(s.rd._index_block_reader))
    IN [o EXCEPT !.rd._initialized = TRUE,
                 !.rd._data_block_reader = block_seek_to_first(@)]

\* seek_to_last, lines 286-303.
sstable_seek_to_last(t, s) ==
    LET o == open_data_block(t, s, block_seek_to_last(s.rd._index_block_reader))
    IN [o EXCEPT !.rd._initialized = TRUE,
                 !.rd._data_block_reader = block_seek_to_last(@)]

\* seek(key), lines 304-321.
sstable_seek(t, s, key) ==
    LET o == open_data_block(t, s, block_seek(s.rd._index_block_reader, key))
    IN [o EXCEPT !.rd._initialized = TRUE,
                 !.rd._data_block_reader = block_seek(@, key)]

\* current().empty() of line 325: true when the data reader has no entry
\* left, the condition the branch is taken on.
data_exhausted(r) == block_eof(r)

\* next, lines 322-344: after _index_block_reader->next() the handle is
\* decoded from current() whether or not the index reader is exhausted.
sstable_next(t, s) ==
    LET d == block_next(s.rd._data_block_reader)
    IN IF data_exhausted(d)
       THEN LET o == open_data_block(t, s, block_next(s.rd._index_block_reader))
            IN [o EXCEPT !.rd._data_block_reader = block_seek_to_first(@)]
       ELSE [s EXCEPT !.rd._data_block_reader = d]

\* current, lines 345-347.
sstable_current(rd) == block_current(rd._data_block_reader)

\* eof, lines 348-350.
sstable_eof(rd) ==
    block_eof(rd._index_block_reader) /\ block_eof(rd._data_block_reader)

\* ------------------------------------------------------------ open_sstable

\* The key of the filter block in a metaindex block ("filter." and the name
\* of the policy), and the keys metaindex blocks hold.
FilterKey == <<1, 2>>
MetaKeys == {FilterKey, <<2>>}

\* The values of a metaindex block: a handle, and one that does not decode.
MetaValues == {encode_handle(0, 1), <<>>}

\* The files open_sstable is given: the size, whether the footer decodes,
\* the entries of the metaindex block.  A file too short for a footer has
\* none, a file whose footer does not decode has no block that can be found.
Files ==
    {f \in [size : {kEncodedLength - 1, kEncodedLength},
            footer_ok : BOOLEAN,
            meta : SeqUpTo([key : MetaKeys, value : MetaValues], 1)] :
        /\ f.size < kEncodedLength => ~f.footer_ok
        /\ ~f.footer_ok => f.meta = <<>>}

\* What a file operation that open_sstable waits for comes back with:
\* read_exactly may also return fewer bytes than were asked for.
Outcomes(phase) ==
    IF phase = "footer" THEN {"ok", "failed", "short"} ELSE {"ok", "failed"}

\* The continuations of open_sstable, lines 71-99, and of read_meta, lines
\* 107-128.  o is the call (its file, whether the options have a filter
\* policy, what it waits for: the size, the footer, the index block, the
\* metaindex block, the filter block) and io what that came back with.  The
\* result is what the call waits for next, "done" or "failed", and whether
\* the index block was given to the block cache (line 91).
open_step_cache_early(o, io) ==
    IF io = "failed" THEN [phase |-> "failed", index |-> FALSE, table |-> FALSE]
    ELSE CASE o.phase = "size" ->
                 IF o.file.size < kEncodedLength
                 THEN [phase |-> "failed", index |-> FALSE, table |-> FALSE]
                 ELSE [phase |-> "footer", index |-> FALSE, table |-> FALSE]
           [] o.phase = "footer" ->
                 IF io = "short" \/ ~o.file.footer_ok
                 THEN [phase |-> "failed", index |-> FALSE, table |-> FALSE]
                 ELSE [phase |-> "index", index |-> FALSE, table |-> FALSE]
           [] o.phase = "index" ->
                 IF ~o.policy
                 THEN [phase |-> "done", index |-> TRUE, table |-> TRUE]
                 ELSE [phase |-> "meta", index |-> TRUE, table |-> TRUE]
           [] o.phase = "meta" ->
                 LET meta == block_reader(BuildBlock(o.file.meta, 1))
                     data == block_current(block_seek(meta, FilterKey)).value
                 IN IF decode_from(data).ok
                    THEN [phase |-> "filter", index |-> FALSE, table |-> FALSE]
                    ELSE [phase |-> "done", index |-> FALSE, table |-> TRUE]
           [] o.phase = "filter" ->
                 [phase |-> "done", index |-> FALSE, table |-> TRUE]

\* table says whether get_table_cache().insert ran: line 96, in the
\* continuation of read_meta.
open_step(o, io) ==
    IF io = "failed" THEN [phase |-> "failed", index |-> FALSE, table |-> FALSE]
    ELSE CASE o.phase = "size" ->
                 IF o.file.size < kEncodedLength
                 THEN [phase |-> "failed", index |-> FALSE, table |-> FALSE]
                 ELSE [phase |-> "footer", index |-> FALSE, table |-> FALSE]
           [] o.phase = "footer" ->
                 IF io = "short" \/ ~o.file.footer_ok
                 THEN [phase |-> "failed", index |-> FALSE, table |-> FALSE]
                 ELSE [phase |-> "index", index |-> FALSE, table |-> FALSE]
           [] o.phase = "index" ->
                 IF ~o.policy
                 THEN [phase |-> "done", index |-> TRUE, table |-> TRUE]
                 ELSE [phase |-> "meta", index |-> TRUE, table |-> FALSE]
           [] o.phase = "meta" ->
                 LET meta == block_reader(BuildBlock(o.file.meta, 1))
                     data == block_current(block_seek(meta, FilterKey)).value
                 IN IF decode_from(data).ok
                    THEN [phase |-> "filter", index |-> FALSE, table |-> FALSE]
                    ELSE [phase |-> "done", index |-> FALSE, table |-> TRUE]
           [] o.phase = "filter" ->
                 [phase |-> "done", index |-> FALSE, table |-> TRUE]

\* convert_to_handle_key(footer_.index_handle()), line 90: the key the index
\* block has in the block cache.  Every file modelled has its index block at
\* the same place.
index_handle_key(f) == encode_handle(1, 1)

\* handle_exception, lines 101-103: whatever failed, the future of
\* open_sstable fails with redis::io_exception.
handle_exception(o, io) == "io_exception"

\* ------------------------------------- sstable_reader, read by read

\* The step a call takes on the index reader: lines 268, 287, 305 and 326.
index_step(call, key, ix) ==
    CASE call = "seek_to_first" -> block_seek_to_first(ix)
      [] call = "seek_to_last" -> block_seek_to_last(ix)
      [] call = "seek" -> block_seek(ix, key)
      [] call = "next" -> block_next(ix)

\* The step a call ends with, on the reader of the block it opened: lines
\* 276 and 282, 295 and 300, 313 and 318, 333 and 338.
data_step(call, key, d) ==
    CASE call = "seek_to_first" -> block_seek_to_first(d)
      [] call = "seek_to_last" -> block_seek_to_last(d)
      [] call = "seek" -> block_seek(d, key)
      [] call = "next" -> block_seek_to_first(d)

\* A call of an sstable_reader up to the point where it is done or has to
\* wait for read_block: the index reader steps, the handle is decoded and
\* the block looked up with cache()->find (lines 273, 292, 310, 330).  On a
\* hit the call completes; on a miss read_block is called, whatever reads
\* are in flight.  read is <<>> or the handle of the block being read.
begin_call(call, key, rd, cache) ==
    LET d == block_next(rd._data_block_reader)
    IN IF call = "next" /\ ~data_exhausted(d)
       THEN [rd |-> [rd EXCEPT !._data_block_reader = d], read |-> <<>>]
       ELSE LET ix == index_step(call, key, rd._index_block_reader)
                data_handle == decode_from(block_current(ix).value)
                handle_key == <<rd._table, data_handle.offset>>
                b == read_block(tables[rd._table].file, data_handle)
                rd2 == [rd EXCEPT
                           !._index_block_reader = ix,
                           !._data_block_reader = IF call = "next" THEN d ELSE @,
                           !._initialized = IF call = "next" THEN @ ELSE TRUE]
            IN IF handle_key \in cache
               THEN [rd |-> [rd2 EXCEPT !._data_block_reader =
                                           data_step(call, key, block_reader(b))],
                     read |-> <<>>]
               ELSE [rd |-> rd2, read |-> <<data_handle>>]

\* The continuation of read_block, lines 278-283, 297-301, 315-319 and
\* 335-339: the block is put in the cache and a reader of it made and
\* positioned.  p is the read: the call waiting and the handle.
read_completed(rd, p, cache) ==
    LET b == read_block(tables[rd._table].file, p.handle)
    IN [rd |-> [rd EXCEPT !._data_block_reader =
                             data_step(p.call, p.key, block_reader(b))],
        cache |-> cache \cup {<<rd._table, p.handle.offset>>}]

\* An sstable_reader has no data reader before its first block was opened.
null_data_reader(rd) == rd._data_block_reader = block_reader(NoBlock.data)

\* The lambdas of lines 380-382, 388-390, 396-398 and 404-408 as they are
\* written: each calls its reader and drops the future it gets, so that
\* parallel_for_each is done when the calls have returned.
begin_for_each(call, key, cur, rs, cache) ==
    [t \in 1..Len(rs) |->
        IF call = "next" /\ t # cur THEN [rd |-> rs[t], read |-> <<>>]
        ELSE begin_call(call, key, rs[t], cache)]

\* ----------------------------------------------- combined_sstables_reader

\* The call a positioning call or next makes on one reader.
sub_call(call, key, t, s) ==
    CASE call = "seek_to_first" -> sstable_seek_to_first(t, s)
      [] call = "seek_to_last" -> sstable_seek_to_last(t, s)
      [] call = "seek" -> sstable_seek(t, s, key)
      [] call = "next" -> sstable_next(t, s)

\* parallel_for_each without the test of line 405: next is called on every
\* reader.
parallel_for_each_every_reader(call, key, cur, rs, cache) ==
    LET done == [t \in 1..Len(rs) |->
                    sub_call(call, key, t, [rd |-> rs[t], cache |-> cache])]
    IN [readers |-> [t \in 1..Len(rs) |-> done[t].rd],
        cache |-> UNION {done[t].cache : t \in 1..Len(rs)}]

\* parallel_for_each over the readers rs, lines 380-382, 388-390, 396-398 and
\* 404-408: the call on every reader (next: on _current alone), in the
\* schedule where every call has completed when the continuation runs (the
\* calls that wait for a block are followed read by read in begin_for_each).
\* The calls share the block cache, which only grows.
parallel_for_each(call, key, cur, rs, cache) ==
    LET done == [t \in 1..Len(rs) |->
                    IF call = "next" /\ t # cur
                    THEN [rd |-> rs[t], cache |-> cache]
                    ELSE sub_call(call, key, t, [rd |-> rs[t], cache |-> cache])]
    IN [readers |-> [t \in 1..Len(rs) |-> done[t].rd],
        cache |-> UNION {done[t].cache : t \in 1..Len(rs)}]

\* The loop of find_smallest_one, lines 432-437, from reader i on.
RECURSIVE SmallestFrom(_, _, _)
SmallestFrom(rs, i, smallest) ==
    IF i > Len(rs) THEN smallest
    ELSE IF compare(sstable_current(rs[i]).key,
                    sstable_current(rs[smallest]).key) < 0
         THEN SmallestFrom(rs, i + 1, i)
         ELSE SmallestFrom(rs, i + 1, smallest)

\* find_smallest_one, lines 428-443: the new _current and _eof.
find_smallest_one(rs, eof) ==
    LET smallest == SmallestFrom(rs, 2, 1)
    IN [_current |-> smallest, _eof |-> IF smallest = 0 THEN TRUE ELSE eof]

\* The loop of eof, lines 418-420: all_eof &= sstable->eof().
RECURSIVE AllEofFrom(_, _, _)
AllEofFrom(rs, i, all_eof) ==
    IF i > Len(rs) THEN all_eof
    ELSE AllEofFrom(rs, i + 1, all_eof /\ sstable_eof(rs[i]))

\* eof, lines 413-422: all_eof starts false.
combined_eof(rs, eof) == IF eof THEN eof ELSE AllEofFrom(rs, 1, FALSE)

\* current, lines 424-426.
combined_current(rs, cur) == sstable_current(rs[cur])

\* ------------------------------------------------- the public operations

UafOutcomes == {"stale", "fault"}
Builds == {"ndebug", "assert"}

\* An unordered_map<bytes, double> in the order its iteration visits it.
Members ==
    {m \in SeqUpTo(Keys \X Scores, MaxBatch) :
        \A i, j \in 1..Len(m) : i # j => m[i][1] # m[j][1]}

KeyVectors == SeqUpTo(Keys, MaxBatch)

\* A vector of entry pointers as fetch_by_rank or fetch_by_score fills it.
EntryVectors == {q \in SeqUpTo(Range(_list), MaxBatch) : NoRepeat(q)}

\* Pointer values carry no meaning of their own: after a call the entries
\* still reachable (from the list, then the released ones the dictionary
\* still links, by key) are renumbered 1, 2, ... and the others forgotten.
Renumbered(s) ==
    LET rest == s._dict \ Range(s._list)
        byKey == [i \in 1..Cardinality(rest) |->
                     CHOOSE x \in rest :
                         Cardinality({y \in rest : s._key[y] < s._key[x]}) = i - 1]
        old == s._list \o byKey
        new(e) == IndexOf(old, e)
    IN [_dict |-> {new(e) : e \in s._dict},
        _list |-> [i \in 1..Len(s._list) |-> i],
        _key |-> [i \in 1..Len(old) |-> s._key[old[i]]],
        _score |-> [i \in 1..Len(old) |-> s._score[old[i]]],
        freed |-> {new(e) : e \in s.freed \cap Range(old)},
        crashed |-> s.crashed,
        ret |-> s.ret]

Returned(r, name, args) ==
    LET n == Renumbered(r)
    IN /\ _dict' = n._dict
       /\ _list' = n._list
       /\ _key' = n._key
       /\ _score' = n._score
       /\ freed' = n.freed
       /\ crashed' = n.crashed
       /\ op' = Call(name, args, n.ret)
       /\ UNCHANGED <<updating, tableVars>>

\* The outcomes of reading released memory; there is none to read while the
\* dictionary links no released entry.
Uaf == IF Dangling(State) = {} THEN {"stale"} ELSE UafOutcomes

Insert ==
    /\ ~crashed
    /\ Len(_key) < MaxAlloc
    /\ \E k \in Keys, sc \in Scores, uaf \in Uaf :
          Returned(insert(construct(State, k, sc), NewEntry(State), uaf),
                   "insert", <<k, sc>>)

InsertIfNotExists ==
    /\ ~crashed
    /\ \E m \in Members, uaf \in Uaf :
          /\ Len(_key) + Len(m) <= MaxAlloc
          /\ Returned(insert_if_not_exists([State EXCEPT !.ret = 0], m, 1, uaf),
                      "insert_if_not_exists", <<Len(m)>>)

UpdateIfOnlyExists ==
    /\ ~crashed
    /\ \E m \in Members, uaf \in Uaf :
          Returned(update_if_only_exists([State EXCEPT !.ret = 0], m, 1, uaf),
                   "update_if_only_exists", <<m>>)

InsertOrUpdate ==
    /\ ~crashed
    /\ \E k \in Keys, delta \in Deltas, uaf \in Uaf :
          /\ find(State, k) = {} => Len(_key) < MaxAlloc /\ delta \in Scores
          /\ find(State, k) # {} => score(State, k)[1] + delta \in Scores
          /\ Returned(insert_or_update(State, k, delta, uaf),
                      "insert_or_update", <<k, delta>>)

InsertOrUpdateMembers ==
    /\ ~crashed
    /\ \E m \in Members, uaf \in Uaf :
          /\ Len(_key) + Len(m) <= MaxAlloc
          /\ Returned(insert_or_update_members([State EXCEPT !.ret = 0], m, 1, uaf),
                      "insert_or_update_members", <<Len(m)>>)

UpdateScore ==
    /\ ~crashed
    /\ \E k \in Keys, sc \in Scores, uaf \in Uaf :
          Returned(update_score(State, k, sc, uaf), "update_score", <<k, sc>>)

EraseEntries ==
    /\ ~crashed
    /\ \E q \in EntryVectors :
          Returned(erase_entries(State, q, 1), "erase_entries", <<Len(q)>>)

EraseKeys ==
    /\ ~crashed
    /\ \E q \in KeyVectors, uaf \in Uaf :
          Returned(erase_keys([State EXCEPT !.ret = 0], q, 1, uaf),
                   "erase_keys", <<q>>)

Erase ==
    /\ ~crashed
    /\ \E k \in Keys, uaf \in Uaf :
          Returned(erase(State, k, uaf), "erase", <<k>>)

FlushAll ==
    /\ ~crashed
    /\ \E build \in Builds :
          Returned(flush_all(State, build), "flush_all", <<>>)

FetchByRank ==
    /\ ~crashed
    /\ \E begin \in RankArgs, end \in RankArgs :
          /\ op' = Call("fetch_by_rank", <<begin, end>>,
                        Pairs(State, fetch_by_rank(_list, begin, end)))
          /\ UNCHANGED ssetVars
          /\ UNCHANGED tableVars

\* A sorted set as its constructor leaves it.
SsetInit ==
    /\ _dict = {}
    /\ _list = <<>>
    /\ _key = <<>>
    /\ _score = <<>>
    /\ freed = {}
    /\ crashed = FALSE
    /\ updating = <<>>
    /\ op = Call("sset_lsa", <<>>, "void")

\* No table is open.
ReadersIdle ==
    /\ tables = <<>>
    /\ _readers = <<>>
    /\ _current = 0
    /\ _eof = FALSE
    /\ _block_cache = {}

\* No read is in flight, no table is being opened and none was.
AsyncIdle ==
    /\ pending = {}
    /\ opening = {}
    /\ _table_cache = {}

\* No block and no table is read.
TableIdle ==
    /\ block = NoBlock
    /\ it = block_reader(NoBlock.data)
    /\ ReadersIdle
    /\ AsyncIdle
    /\ walk = "none"
    /\ emitted = <<>>

Init == SsetInit /\ TableIdle

Next ==
    \/ Insert
    \/ InsertIfNotExists
    \/ UpdateIfOnlyExists
    \/ InsertOrUpdate
    \/ InsertOrUpdateMembers
    \/ UpdateScore
    \/ EraseEntries
    \/ EraseKeys
    \/ Erase
    \/ FlushAll

Spec == Init /\ [][Next]_vars

\* The sorted set under the calls that fill and empty it, and range queries.
NextRank ==
    \/ Insert
    \/ EraseKeys
    \/ FetchByRank

SpecRank == Init /\ [][NextRank]_vars

Rank ==
    /\ ~crashed
    /\ \E k \in Keys, uaf \in Uaf :
          Returned(rank(State, k, uaf), "rank", <<k>>)

FetchByScore ==
    /\ ~crashed
    /\ \E min \in Scores, max \in Scores, limit \in Limits :
          Returned([State EXCEPT !.ret = fetch_by_score(State, min, max, limit)],
                   "fetch_by_score", <<min, max, limit>>)

CountByScore ==
    /\ ~crashed
    /\ \E min \in Scores, max \in Scores, uaf \in Uaf :
          Returned(count_by_score(State, min, max, uaf),
                   "count_by_score", <<min, max>>)

\* The sorted set under the calls that fill and empty it, and the queries by
\* key and by score.
NextQuery ==
    \/ Insert
    \/ EraseKeys
    \/ Rank
    \/ FetchByScore
    \/ CountByScore

SpecQuery == Init /\ [][NextQuery]_vars

\* ------------------------------------ score updates, statement by statement

\* The calls that change the score of an entry of the set.
UpdateCalls ==
    {"update_if_only_exists", "update_score", "insert_or_update",
     "insert_or_update_members"}

\* The statements such a call runs on an entry it found in _dict, in the
\* order of the source: update_if_only_exists (lines 195-197) and
\* update_score (lines 355-357) unlink, write, link; the two insert_or_update
\* write (lines 211, 229) and then call update, which unlinks and links
\* (lines 519-521).
Statements(name) ==
    IF name \in {"update_if_only_exists", "update_score"}
    THEN <<"_list.erase", "update_score", "insert_ordered">>
    ELSE <<"update_score", "_list.erase", "insert_ordered">>

\* The score the call writes: insert_or_update(key, delta) adds delta to the
\* score the entry has (line 210), the others write their argument.
NewScore(name, e, arg) ==
    IF name = "insert_or_update" THEN _score[e] + arg ELSE arg

\* The result of the call; a call on a map of members is one of one member.
UpdateResult(name, sc) ==
    CASE name = "update_score" -> TRUE
      [] name = "insert_or_update" -> sc
      [] OTHER -> 1

\* No score is being changed.
UpdateIdle == updating = <<>>

\* The call is at statement st.
UpdateAt(st) ==
    /\ ~crashed
    /\ updating # <<>>
    /\ Statements(updating[1].name)[updating[1].pc] = st

\* One of the calls, for a key the dictionary has: the entry is found.
UpdateCalled ==
    /\ ~crashed
    /\ UpdateIdle
    /\ \E name \in UpdateCalls, k \in Keys, arg \in Scores \cup Deltas :
          /\ find(State, k) # {}
          /\ \E e \in {CHOOSE x \in find(State, k) : TRUE} :
                /\ name = "insert_or_update" <=> arg \notin Scores
                /\ NewScore(name, e, arg) \in Scores
                /\ updating' = <<[name |-> name, args |-> <<k, arg>>, e |-> e,
                                  score |-> NewScore(name, e, arg), pc |-> 1]>>
    /\ UNCHANGED <<_dict, _list, _key, _score, freed, crashed, op, tableVars>>

\* _list.erase(lit), lines 195, 355, 520.
UpdateListErase ==
    /\ UpdateAt("_list.erase")
    /\ \E s \in {list_erase(State, updating[1].e)} :
          /\ _list' = s._list
          /\ crashed' = s.crashed
    /\ updating' = <<[updating[1] EXCEPT !.pc = @ + 1]>>
    /\ UNCHANGED <<_dict, _key, _score, freed, op, tableVars>>

\* it->update_score(score), lines 196, 211, 229, 356.
UpdateScoreField ==
    /\ UpdateAt("update_score")
    /\ _score' = [_score EXCEPT ![updating[1].e] = updating[1].score]
    /\ updating' = <<[updating[1] EXCEPT !.pc = @ + 1]>>
    /\ UNCHANGED <<_dict, _list, _key, freed, crashed, op, tableVars>>

\* insert_ordered(&(*it)), lines 197, 357, 521; the call returns.
UpdateInsertOrdered ==
    /\ UpdateAt("insert_ordered")
    /\ \E n \in {Renumbered([State EXCEPT
                       !._list = insert_ordered(@, updating[1].e, _score)])} :
          /\ _dict' = n._dict
          /\ _list' = n._list
          /\ _key' = n._key
          /\ _score' = n._score
          /\ freed' = n.freed
    /\ updating' = <<>>
    /\ op' = Call(updating[1].name, updating[1].args,
                  UpdateResult(updating[1].name, updating[1].score))
    /\ UNCHANGED <<crashed, tableVars>>

NextUpdate ==
    \/ UpdateIdle /\ Insert
    \/ UpdateCalled
    \/ UpdateListErase
    \/ UpdateScoreField
    \/ UpdateInsertOrdered

SpecUpdate == Init /\ [][NextUpdate]_vars

\* ------------------------------------------------ a reader over one block

\* The targets of seek: every key, and the empty key.
Targets == BlockKeys \cup {<<>>}

InitBlock ==
    /\ SsetInit
    /\ \E E \in EntrySeqs(MaxEntries), interval \in 1..MaxInterval :
          /\ block = [entries |-> E, data |-> BuildBlock(E, interval)]
          /\ it = block_reader(BuildBlock(E, interval))
    /\ ReadersIdle
    /\ AsyncIdle
    /\ walk = "none"
    /\ emitted = <<>>

\* A positioning call returned reader r: a traversal begins there.
BlockPositioned(r, name, args, w) ==
    /\ it' = r
    /\ op' = Call(name, args, "void")
    /\ walk' = w
    /\ emitted' = IF block_eof(r) THEN <<>> ELSE <<block_current(r)>>
    /\ UNCHANGED <<ssetVars, block, readerVars, asyncVars>>

BlockSeekToFirst ==
    BlockPositioned(block_seek_to_first(it), "block_seek_to_first", <<>>, "first")

BlockSeekToLast ==
    BlockPositioned(block_seek_to_last(it), "block_seek_to_last", <<>>, "last")

BlockSeek ==
    \E key \in Targets :
        BlockPositioned(block_seek(it, key), "block_seek", <<key>>, "seek")

BlockNext ==
    LET r == block_next(it)
    IN /\ it' = r
       /\ op' = Call("block_next", <<>>, "void")
       /\ emitted' = IF block_eof(r) THEN emitted
                     ELSE Append(emitted, block_current(r))
       /\ UNCHANGED <<ssetVars, block, readerVars, walk, asyncVars>>

NextBlock ==
    \/ BlockSeekToFirst
    \/ BlockSeekToLast
    \/ BlockSeek
    \/ BlockNext

SpecBlock == InitBlock /\ [][NextBlock]_vars

\* ------------------------------------------ a reader over a corrupt block

\* The ways an entry is made not to decode: `shared` larger than any key
\* before it, or a key length that runs past the restart array (truncated).
Corruptions == {"shared", "truncated"}

\* The block built of E with the header of its i-th entry overwritten.
CorruptBlock(E, interval, i, how) ==
    LET b == BuildBlock(E, interval)
        off == EntryOffset(E, i, interval)
    IN IF how = "shared"
       THEN [b EXCEPT ![off + 1] = MaxKeyLen + 1]
       ELSE [b EXCEPT ![off + 2] = Len(b)]

InitCorrupt ==
    /\ SsetInit
    /\ \E E \in EntrySeqs(MaxEntries), interval \in 1..MaxInterval :
          \E i \in 1..Len(E), how \in Corruptions :
              /\ block = [entries |-> E,
                          data |-> CorruptBlock(E, interval, i, how)]
              /\ it = block_reader(CorruptBlock(E, interval, i, how))
    /\ ReadersIdle
    /\ AsyncIdle
    /\ walk = "none"
    /\ emitted = <<>>

\* The body of the loop `while (!eof()) { current(); next(); }`, MaxWalk
\* times at most.
CorruptNext ==
    /\ walk # "none"
    /\ ~block_eof(it)
    /\ Len(emitted) < MaxWalk
    /\ BlockNext

NextCorrupt ==
    \/ BlockSeekToFirst
    \/ BlockSeekToLast
    \/ BlockSeek
    \/ CorruptNext

SpecCorrupt == InitCorrupt /\ [][NextCorrupt]_vars

\* ------------------------------------------------ a reader over one table

InitTable ==
    /\ SsetInit
    /\ block = NoBlock
    /\ it = block_reader(NoBlock.data)
    /\ \E T \in Tables : tables = <<T>>
    /\ _readers = <<sstable_reader(1)>>
    /\ _current = 0
    /\ _eof = FALSE
    /\ _block_cache = {}
    /\ AsyncIdle
    /\ walk = "none"
    /\ emitted = <<>>

TheReader == [rd |-> _readers[1], cache |-> _block_cache]

\* A positioning call left the reader and the block cache as in s.
TablePositioned(s, name, args, w) ==
    /\ _readers' = <<s.rd>>
    /\ _block_cache' = s.cache
    /\ op' = Call(name, args, "void")
    /\ walk' = w
    /\ emitted' = IF sstable_eof(s.rd) THEN <<>> ELSE <<sstable_current(s.rd)>>
    /\ UNCHANGED <<ssetVars, blockVars, tables, _current, _eof, asyncVars>>

TableSeekToFirst ==
    TablePositioned(sstable_seek_to_first(1, TheReader),
                    "sstable_seek_to_first", <<>>, "first")

TableSeekToLast ==
    TablePositioned(sstable_seek_to_last(1, TheReader),
                    "sstable_seek_to_last", <<>>, "last")

TableSeek ==
    \E key \in Targets :
        TablePositioned(sstable_seek(1, TheReader, key),
                        "sstable_seek", <<key>>, "seek")

\* The body of the loop `while (!eof()) { current(); next(); }`.
TableNext ==
    /\ _readers[1]._initialized
    /\ ~sstable_eof(_readers[1])
    /\ Len(emitted) < MaxWalk
    /\ LET s == sstable_next(1, TheReader)
       IN /\ _readers' = <<s.rd>>
          /\ _block_cache' = s.cache
          /\ op' = Call("sstable_next", <<>>, "void")
          /\ emitted' = IF sstable_eof(s.rd) THEN emitted
                        ELSE Append(emitted, sstable_current(s.rd))
          /\ UNCHANGED <<ssetVars, blockVars, tables, _current, _eof, walk,
                         asyncVars>>

NextTable ==
    \/ TableSeekToFirst
    \/ TableSeekToLast
    \/ TableSeek
    \/ TableNext

SpecTable == InitTable /\ [][NextTable]_vars

\* -------------------------------------------- a reader over several tables

InitCombined ==
    /\ SsetInit
    /\ block = NoBlock
    /\ it = block_reader(NoBlock.data)
    /\ tables \in [1..NumTables -> MergedTables]
    /\ _readers = [t \in 1..NumTables |-> sstable_reader(t)]
    /\ _current = 0
    /\ _eof = FALSE
    /\ _block_cache = {}
    /\ AsyncIdle
    /\ walk = "none"
    /\ emitted = <<>>

\* A call on the combined reader: the calls on the readers, then
\* find_smallest_one; a positioning call begins a traversal.
CombinedPositioned(call, key, args, w) ==
    \E c \in {parallel_for_each(call, key, _current, _readers, _block_cache)} :
        \E f \in {find_smallest_one(c.readers, _eof)} :
            /\ _readers' = c.readers
            /\ _block_cache' = c.cache
            /\ _current' = f._current
            /\ _eof' = f._eof
            /\ op' = Call(call, args, "void")
            /\ walk' = w
            /\ emitted' = IF combined_eof(c.readers, f._eof) THEN <<>>
                          ELSE <<combined_current(c.readers, f._current)>>
            /\ UNCHANGED <<ssetVars, blockVars, tables, asyncVars>>

CombinedSeekToFirst == CombinedPositioned("seek_to_first", <<>>, <<>>, "first")

CombinedSeekToLast == CombinedPositioned("seek_to_last", <<>>, <<>>, "last")

CombinedSeek ==
    \E key \in Targets : CombinedPositioned("seek", key, <<key>>, "seek")

\* The body of the loop `while (!eof()) { current(); next(); }`.
CombinedNext ==
    /\ _current # 0
    /\ ~combined_eof(_readers, _eof)
    /\ Len(emitted) < MaxWalk
    /\ \E c \in {parallel_for_each("next", <<>>, _current, _readers,
                                    _block_cache)} :
          \E f \in {find_smallest_one(c.readers, _eof)} :
              /\ _readers' = c.readers
              /\ _block_cache' = c.cache
              /\ _current' = f._current
              /\ _eof' = f._eof
              /\ op' = Call("next", <<>>, "void")
              /\ emitted' = IF combined_eof(c.readers, f._eof) THEN emitted
                            ELSE Append(emitted,
                                        combined_current(c.readers, f._current))
              /\ UNCHANGED <<ssetVars, blockVars, tables, walk, asyncVars>>

NextCombined ==
    \/ CombinedSeekToFirst
    \/ CombinedSeekToLast
    \/ CombinedSeek
    \/ CombinedNext

SpecCombined == InitCombined /\ [][NextCombined]_vars

\* ------------------------------------ readers while block reads are in flight

\* The tables read while reads are in flight: of MaxMergedEntries entries
\* whose keys begin with the same byte, in blocks of every size.
AsyncTables ==
    {BuildTable(E, k, 1) :
        E \in {F \in TableEntries :
                  /\ Len(F) = MaxMergedEntries
                  /\ \A i \in 1..Len(F) :
                        Len(F[i].key) = MaxKeyLen /\ F[i].key[1] = 1},
        k \in 1..MaxBlockSize}

\* The readers: the first over the first table, every other over any table,
\* the first included.
InitAsync ==
    /\ SsetInit
    /\ block = NoBlock
    /\ it = block_reader(NoBlock.data)
    /\ tables \in [1..NumTables -> AsyncTables]
    /\ \E m \in [1..NumTables -> 1..NumTables] :
          /\ m[1] = 1
          /\ _readers = [r \in 1..NumTables |-> sstable_reader(m[r])]
    /\ _current = 0
    /\ _eof = FALSE
    /\ _block_cache = {}
    /\ AsyncIdle
    /\ walk = "none"
    /\ emitted = <<>>

\* The read a call of reader r waits for.
Read(r, call, key, handle) ==
    [reader |-> r, call |-> call, key |-> key, handle |-> handle]

\* Reader r is called (by a caller that waits for the future of its last
\* call first) and the call returns its future.
CursorCalled(r, call, key, args) ==
    /\ ~crashed
    /\ \A p \in pending : p.reader # r
    /\ \E b \in {begin_call(call, key, _readers[r], _block_cache)} :
          /\ _readers' = [_readers EXCEPT ![r] = b.rd]
          /\ pending' = pending \cup
                            {Read(r, call, key, b.read[i]) : i \in 1..Len(b.read)}
    /\ op' = Call("sstable_" \o call, <<r>> \o args, "void")
    /\ UNCHANGED <<ssetVars, blockVars, tables, _current, _eof, _block_cache,
                   walkVars, opening, _table_cache>>

CursorSeekToFirst ==
    \E r \in 1..Len(_readers) : CursorCalled(r, "seek_to_first", <<>>, <<>>)

CursorSeekToLast ==
    \E r \in 1..Len(_readers) : CursorCalled(r, "seek_to_last", <<>>, <<>>)

CursorSeek ==
    \E r \in 1..Len(_readers), key \in Targets :
        CursorCalled(r, "seek", key, <<key>>)

CursorNext ==
    \E r \in 1..Len(_readers) :
        /\ _readers[r]._initialized
        /\ ~null_data_reader(_readers[r])
        /\ ~sstable_eof(_readers[r])
        /\ CursorCalled(r, "next", <<>>, <<>>)

\* A read of a block completes and the call that waits for it continues.
ReadCompletes ==
    /\ ~crashed
    /\ \E p \in pending :
          \E s \in {read_completed(_readers[p.reader], p, _block_cache)} :
              /\ _readers' = [_readers EXCEPT ![p.reader] = s.rd]
              /\ _block_cache' = s.cache
              /\ pending' = pending \ {p}
              /\ op' = Call("read_block", <<p.reader>>, "void")
    /\ UNCHANGED <<ssetVars, blockVars, tables, _current, _eof, walkVars,
                   opening, _table_cache>>

\* A call on the combined reader of these readers: the calls on the readers
\* return, then find_smallest_one reads current() of every reader; a reader
\* that has no data reader yet is a null pointer there.
CombinedCalled(call, key, args) ==
    /\ ~crashed
    /\ pending = {}
    /\ \E b \in {begin_for_each(call, key, _current, _readers, _block_cache)} :
          \E rs \in {[t \in 1..Len(_readers) |-> b[t].rd]} :
              /\ _readers' = rs
              /\ pending' = {Read(t, call, key, b[t].read[1]) :
                                t \in {u \in 1..Len(rs) : b[u].read # <<>>}}
              /\ IF \E t \in 1..Len(rs) : null_data_reader(rs[t])
                 THEN /\ crashed' = TRUE
                      /\ op' = Call(call, args, "crash")
                      /\ UNCHANGED <<_current, _eof>>
                 ELSE /\ crashed' = FALSE
                      /\ op' = Call(call, args, "void")
                      /\ \E f \in {find_smallest_one(rs, _eof)} :
                            /\ _current' = f._current
                            /\ _eof' = f._eof
    /\ UNCHANGED <<_dict, _list, _key, _score, freed, updating, blockVars,
                   tables, _block_cache, walkVars, opening, _table_cache>>

AsyncSeekToFirst == CombinedCalled("seek_to_first", <<>>, <<>>)

AsyncSeekToLast == CombinedCalled("seek_to_last", <<>>, <<>>)

AsyncSeek == \E key \in Targets : CombinedCalled("seek", key, <<key>>)

AsyncNext ==
    /\ _current # 0
    /\ ~combined_eof(_readers, _eof)
    /\ CombinedCalled("next", <<>>, <<>>)

NextAsync ==
    \/ CursorSeekToFirst
    \/ CursorSeekToLast
    \/ CursorSeek
    \/ CursorNext
    \/ ReadCompletes
    \/ AsyncSeekToFirst
    \/ AsyncSeekToLast
    \/ AsyncSeek
    \/ AsyncNext

SpecAsync == InitAsync /\ [][NextAsync]_vars

\* ------------------------------------------------------- tables being opened

\* No table is open, none is being opened; no reader exists.
InitOpen ==
    /\ SsetInit
    /\ TableIdle

\* open_sstable(fname, opts), line 65: open_file_dma is called and the
\* caller holds a future.
OpenSstable ==
    /\ ~crashed
    /\ \E f \in Files, policy \in BOOLEAN :
          \E id \in (1..MaxOpens) \ {o.id : o \in opening} :
              /\ opening' = opening \cup
                     {[id |-> id, file |-> f, policy |-> policy, phase |-> "open"]}
              /\ op' = Call("open_sstable", <<f, policy, "call", "ok">>, "pending")
    /\ UNCHANGED <<ssetVars, blockVars, readerVars, walkVars, pending,
                   _table_cache>>

\* The continuation of open_file_dma, lines 65-71.  A file that could not be
\* opened fails the call with the exception of open_file_dma: the handler of
\* line 101 is attached inside this continuation.  A table found in the
\* table cache is returned, else the size of the file is asked for.
FileOpened ==
    /\ ~crashed
    /\ \E o \in opening, io \in Outcomes("open") :
          /\ o.phase = "open"
          /\ IF io = "ok" /\ o.file \notin _table_cache
             THEN /\ opening' = (opening \ {o}) \cup {[o EXCEPT !.phase = "size"]}
                  /\ op' = Call("open_sstable", <<o.file, o.policy, o.phase, io>>, "pending")
             ELSE /\ opening' = opening \ {o}
                  /\ op' = Call("open_sstable", <<o.file, o.policy, o.phase, io>>,
                                IF io = "ok" THEN "table" ELSE "system_error")
    /\ UNCHANGED <<ssetVars, blockVars, readerVars, walkVars, pending,
                   _table_cache>>

\* What the call waits for at phase completes with io: the continuation
\* runs (open_step); the call goes on waiting, or returns the table after
\* line 96 put it into the table cache, or fails through the handler of line
\* 101.
OpenContinued(phase) ==
    /\ ~crashed
    /\ \E o \in opening, io \in Outcomes(phase) :
          /\ o.phase = phase
          /\ \E s \in {open_step(o, io)} :
                /\ opening' = IF s.phase \in {"done", "failed"} THEN opening \ {o}
                              ELSE (opening \ {o}) \cup {[o EXCEPT !.phase = s.phase]}
                /\ _block_cache' = IF s.index THEN _block_cache \cup {index_handle_key(o.file)}
                                   ELSE _block_cache
                /\ _table_cache' = IF s.table THEN _table_cache \cup {o.file}
                                   ELSE _table_cache
                /\ op' = Call("open_sstable", <<o.file, o.policy, o.phase, io>>,
                              IF s.phase = "done" THEN "table"
                              ELSE IF s.phase = "failed" THEN handle_exception(o, io)
                              ELSE "pending")
    /\ UNCHANGED <<ssetVars, blockVars, tables, _readers, _current, _eof,
                   walkVars, pending>>

\* The continuation of file_.size(), lines 71-78.
SizeKnown == OpenContinued("size")

\* The continuation of the read of the footer, lines 78-88.
FooterRead == OpenContinued("footer")

\* The continuation of the read of the index block, lines 89-95 and 107-113.
IndexBlockRead == OpenContinued("index")

\* The continuation of the read of the metaindex block, lines 113-128.
MetaBlockRead == OpenContinued("meta")

\* The continuation of the read of the filter block, lines 121-125.
FilterBlockRead == OpenContinued("filter")

\* An open that never completes: the chain of continuations is destroyed
\* before it ran to its end.  Nothing in open_sstable reacts to the caller
\* letting go of the future; a chain that runs on after that is an open that
\* completes, as the actions above say.
OpenDropped ==
    /\ ~crashed
    /\ \E o \in opening :
          /\ opening' = opening \ {o}
          /\ op' = Call("open_sstable", <<o.file, o.policy, o.phase, "dropped">>, "dropped")
    /\ UNCHANGED <<ssetVars, blockVars, readerVars, walkVars, pending,
                   _table_cache>>

NextOpen ==
    \/ OpenSstable
    \/ FileOpened
    \/ SizeKnown
    \/ FooterRead
    \/ IndexBlockRead
    \/ MetaBlockRead
    \/ FilterBlockRead
    \/ OpenDropped

SpecOpen == InitOpen /\ [][NextOpen]_vars

\* ================================================================ claims

\* The (key, score) pairs along the score list, head first.
ListPairs == Pairs(State, _list)

\* The keys the dictionary links.
DictKeys == {_key[e] : e \in _dict}

\* C1: after any sequence of public mutating operations the dictionary and
\* the score list hold the same entries: every entry of one is an entry of
\* the other, none is released, no key occurs twice, and
\* size() = dictionary size = list size.
C1_DictAndListAgree ==
    ~crashed =>
        /\ Range(_list) = _dict
        /\ _dict \cap freed = {}
        /\ \A i, j \in 1..Len(_list) : i # j => _key[_list[i]] # _key[_list[j]]
        /\ size(State) = Cardinality(_dict)

\* C2: after any sequence of public mutating operations the scores read
\* along the score list from head to tail are non-decreasing.
C2_ListNonDecreasing ==
    \A i \in 1..(Len(_list) - 1) : _score[_list[i]] <= _score[_list[i + 1]]

\* C2, its case: a call that changes a score has returned and the list holds
\* three entries of which the first and the last differ in score.
C2_Witness ==
    /\ op.name \in {"update_score", "insert_or_update", "update_if_only_exists"}
    /\ ~crashed
    /\ Len(_list) = 3
    /\ _score[_list[1]] < _score[_list[3]]

\* C9: insert_or_update(key, delta) on a key with score s returns s + delta
\* and leaves score(key) = s + delta; on an absent key it returns delta and
\* leaves the key in the set with score delta; in both cases the entry sits
\* where its new score puts it: after every entry of a score not greater,
\* before every entry of a greater score.
C9_IncrementStep(k, delta) ==
    LET old == score(State, k)
        new == IF old = <<>> THEN delta ELSE old[1] + delta
    IN /\ ~crashed'
       /\ op'.ret = new
       /\ \E e \in _dict' :
             /\ _key'[e] = k
             /\ _score'[e] = new
             /\ e \in Range(_list')
             /\ \A i \in 1..Len(_list') :
                   /\ i < IndexOf(_list', e) => _score'[_list'[i]] <= new
                   /\ i > IndexOf(_list', e) => _score'[_list'[i]] > new

C9_Increment ==
    [][op'.name = "insert_or_update" =>
          C9_IncrementStep(op'.args[1], op'.args[2])]_vars

\* C10: insert(entry) returns true exactly when no entry with the key was in
\* the set, and a call that returns false changes neither the dictionary nor
\* the score list.
C10_InsertStep(k) ==
    /\ ~crashed'
    /\ op'.ret = (find(State, k) = {} /\ k \notin {_key[e] : e \in Range(_list)})
    /\ op'.ret = FALSE =>
          /\ Pairs(State', _list') = ListPairs
          /\ DictKeys' = DictKeys

C10_Insert == [][op'.name = "insert" => C10_InsertStep(op'.args[1])]_vars

\* C8: range_by_rank(begin, end) on a set of n entries reads a negative index
\* i as n + i, returns nothing when then begin > end or begin is past the
\* last entry, and otherwise exactly the entries at the list positions
\* begin .. min(end, n - 1), in list order.  Stated for the indices i >= -n,
\* which n + i makes a position.
C8_Expected(begin, end) ==
    LET n == Len(_list)
        b == IF begin < 0 THEN n + begin ELSE begin
        e == IF end < 0 THEN n + end ELSE end
        at == {p \in 0..(n - 1) : b <= p /\ p <= e}
    IN IF b > e \/ b > n - 1 \/ at = {} THEN <<>>
       ELSE [i \in 1..Cardinality(at) |->
                <<_key[_list[Min(at) + i]], _score[_list[Min(at) + i]]>>]

C8_RangeByRank ==
    [][(/\ op'.name = "fetch_by_rank"
        /\ op'.args[1] >= 0 - Len(_list)
        /\ op'.args[2] >= 0 - Len(_list))
          => op'.ret = C8_Expected(op'.args[1], op'.args[2])]_vars

TableAll(t) == Flatten(tables[t].blocks)

\* The entries of S in the order of their keys (no two of the same key).
SortedSeq(S) ==
    CHOOSE q \in [1..Cardinality(S) -> S] :
        \A i, j \in 1..Cardinality(S) :
            i < j => compare(q[i].key, q[j].key) < 0

\* C3: on a table of one or more data blocks the loop seek_to_first;
\* while !eof { current; next } emits every entry of every data block once,
\* block after block: what it has emitted is always the first entries of the
\* table, and all of them once eof() is true.
C3_TableWalk ==
    walk = "first" =>
        IF sstable_eof(_readers[1]) THEN emitted = TableAll(1)
        ELSE /\ emitted # <<>>
             /\ Len(emitted) <= Len(TableAll(1))
             /\ emitted = SubSeq(TableAll(1), 1, Len(emitted))

\* No key is in two tables.
DisjointTables ==
    \A t, u \in 1..Len(tables) :
        t # u => \A i \in 1..Len(TableAll(t)), j \in 1..Len(TableAll(u)) :
                    TableAll(t)[i].key # TableAll(u)[j].key

\* C4: over tables of pairwise disjoint key sets, seek_to_first and repeated
\* next() emit each key of the union once, in ascending order: what was
\* emitted is always the first entries of the sorted union, and all of them
\* once eof() is true.
C4_MergedWalk ==
    (walk = "first" /\ DisjointTables) =>
        LET all == SortedSeq(UNION {Range(TableAll(t)) : t \in 1..Len(tables)})
        IN IF combined_eof(_readers, _eof) THEN emitted = all
           ELSE /\ emitted # <<>>
                /\ Len(emitted) <= Len(all)
                /\ emitted = SubSeq(all, 1, Len(emitted))

\* C5: after a positioning call of a combined reader, eof() is true exactly
\* when every reader it combines is exhausted.
C5_EofIffAllExhausted ==
    walk # "none" =>
        (combined_eof(_readers, _eof)
            <=> \A t \in 1..Len(_readers) : sstable_eof(_readers[t]))

\* The positions of the score list, counted from 0, whose entry has key k.
PositionsOf(k) == {i \in 0..(Len(_list) - 1) : _key[_list[i + 1]] = k}

\* C11: rank(key) returns i exactly when a walk of the score list from its
\* head finds the entry with that key at 0-based position i, and no value for
\* a key the walk does not find.
C11_RankIsListPosition ==
    op.name = "rank" =>
        /\ ~crashed
        /\ op.ret = IF PositionsOf(op.args[1]) = {} THEN <<>>
                    ELSE <<Min(PositionsOf(op.args[1]))>>

\* The entries of the score list, in list order, whose score is in min..max.
InScoreRange(min, max) ==
    SelectSeq(_list, LAMBDA e : min <= _score[e] /\ _score[e] <= max)

\* C12: range_by_score(min, max, limit) returns, in list order, the entries
\* whose score s satisfies min <= s <= max: all of them when limit = 0, the
\* first limit of them (or all, if fewer) when limit > 0.
C12_RangeByScore ==
    op.name = "fetch_by_score" =>
        LET all == InScoreRange(op.args[1], op.args[2])
            limit == op.args[3]
        IN op.ret = IF limit = 0 THEN all
                    ELSE SubSeq(all, 1, Min({limit, Len(all)}))

\* C12, its case: a call with a limit smaller than the number of entries in
\* the score range has returned the first limit of them.
C12_Witness ==
    /\ op.name = "fetch_by_score"
    /\ op.args[3] > 0
    /\ op.args[3] < Len(InScoreRange(op.args[1], op.args[2]))
    /\ Len(op.ret) = op.args[3]
    /\ \E i \in 1..Len(_list) : _score[_list[i]] < op.args[1]

\* C13: count_by_score(min, max) is the number of entries whose score s
\* satisfies min <= s <= max, equal scores at the bounds and at the ends of
\* the list included.
C13_CountByScore ==
    op.name = "count_by_score" =>
        /\ ~crashed
        /\ op.ret = Len(InScoreRange(op.args[1], op.args[2]))

\* The (key, score) pairs of the entries the dictionary links.
DictPairs == {<<_key[e], _score[e]>> : e \in _dict}

\* C14: erase(keys) removes from the dictionary and from the score list
\* exactly the entries whose key is in keys, returns how many entries it
\* removed (a key not in the set and a repeat of a key count zero) and
\* leaves the other entries and their order as they were.
C14_EraseKeysStep(keys) ==
    LET kept == SelectSeq(ListPairs, LAMBDA p : p[1] \notin Range(keys))
    IN /\ ~crashed'
       /\ ListPairs' = kept
       /\ DictPairs' = {p \in DictPairs : p[1] \notin Range(keys)}
       /\ (Range(_list') \cup _dict') \cap freed' = {}
       /\ op'.ret = Len(ListPairs) - Len(kept)

C14_EraseKeys ==
    [][op'.name = "erase_keys" => C14_EraseKeysStep(op'.args[1])]_vars

\* C15: update_if_only_exists(members) gives every member key that is in the
\* set the member's score and moves its entry where that score puts it,
\* creates no entry for a member key that is not in the set, returns the
\* number of member keys that were in the set and leaves size() unchanged.
C15_UpdateStep(members) ==
    LET present == {i \in 1..Len(members) : members[i][1] \in DictKeys}
    IN /\ ~crashed'
       /\ \A i \in present : score(State', members[i][1]) = <<members[i][2]>>
       /\ C2_ListNonDecreasing'
       /\ DictKeys' = DictKeys
       /\ {_key'[e] : e \in Range(_list')} = {_key[e] : e \in Range(_list)}
       /\ op'.ret = Cardinality(present)
       /\ size(State') = size(State)

C15_UpdateIfPresent ==
    [][op'.name = "update_if_only_exists" => C15_UpdateStep(op'.args[1])]_vars

\* The key under which the block cache holds the block a read is for.
HandleKey(p) == <<_readers[p.reader]._table, p.handle.offset>>

\* C16: fills of the block cache are single-flight: a call that misses the
\* block cache on a block whose read is in flight issues no second
\* read_block for it, so that at most one read per block key is in flight.
C16_SingleFlight ==
    [][\A p \in pending' \ pending :
          \A q \in pending : HandleKey(p) # HandleKey(q)]_vars

\* C19: in seek_to_first, seek_to_last, seek and next of the combined reader
\* the minimum is computed only after the call of every reader has
\* completed: when find_smallest_one has run, no read of a block that one of
\* the calls waits for is in flight.
C19_MinimumAfterAllSettled ==
    [][op'.name \in {"seek_to_first", "seek_to_last", "seek", "next"}
          => pending' = {}]_vars

\* C20: seek(key) of an sstable_reader with a key greater than every key of
\* the index block leaves the reader exhausted: eof() is true, and no data
\* block was read or taken from the cache (the block cache and the block of
\* the data reader are what they were).
C20_SeekPastIndexStep(key) ==
    compare(key, TableAll(1)[Len(TableAll(1))].key) > 0 =>
        /\ sstable_eof(_readers'[1])
        /\ _block_cache' = _block_cache
        /\ _readers'[1]._data_block_reader._block
              = _readers[1]._data_block_reader._block

C20_SeekPastIndex ==
    [][op'.name = "sstable_seek" => C20_SeekPastIndexStep(op'.args[1])]_vars

\* The last step of open_sstable was a continuation that ended the call
\* without a table: it failed, or the call was dropped.
OpenEndedWithoutTable(o) ==
    /\ o.name = "open_sstable"
    /\ o.ret \in {"io_exception", "system_error", "dropped"}

\* C17: open_sstable puts the table into the table cache only in the step
\* that completes the call with the table, after the footer, the index block
\* and the metaindex and filter blocks were read with success; a step in
\* which the call fails (short file, short footer read, footer that does
\* not decode, failed read) or is dropped puts nothing into the table cache,
\* which has no entry for the file unless it had one before.
C17_InsertOnlyOnSuccess ==
    [][/\ _table_cache' # _table_cache =>
              /\ op'.name = "open_sstable"
              /\ op'.ret = "table"
              /\ op'.args[4] = "ok"
              /\ _table_cache' = _table_cache \cup {op'.args[1]}
       /\ OpenEndedWithoutTable(op') => _table_cache' = _table_cache]_vars

\* An open failed at its last read, that of the filter block, after the index
\* block went to the block cache: the table cache has no entry for the file.
C17_Witness ==
    /\ op.name = "open_sstable"
    /\ op.ret = "io_exception"
    /\ op.args[3] = "filter"
    /\ index_handle_key(op.args[1]) \in _block_cache
    /\ op.args[1] \notin _table_cache

\* The error the failure of a step of open_sstable is to be reported with:
\* io_error (redis::io_exception) for a failed read, corrupt_format for a
\* file too short for a footer and for a footer that does not decode.
C18_Expected(phase, io) ==
    IF io = "failed" THEN "io_exception" ELSE "corrupt_format"

\* C18: open_sstable on a file shorter than a footer fails with
\* corrupt_format, as does an open whose footer does not decode; an open
\* whose read of the footer or of a block failed fails with io_error.
C18_ErrorKinds ==
    [][(/\ op'.name = "open_sstable"
        /\ op'.ret \notin {"pending", "table", "dropped"}
        /\ op'.args[3] \in {"size", "footer", "index", "meta", "filter"}
        /\ op'.args[4] # "short")
          => op'.ret = C18_Expected(op'.args[3], op'.args[4])]_vars

\* The entry a running call changes the score of.
Updated == updating[1].e

\* C21: a call that changes the score of an entry of the set unlinks the
\* entry from the score list, then writes its score field, then links it
\* in order: the score field is written only while the entry is in no list,
\* and the entry is linked again only with the new score in its field.
C21_UnlinkWriteRelink ==
    [][updating # <<>> =>
          /\ _score'[Updated] # _score[Updated] => Updated \notin Range(_list)
          /\ (Updated \notin Range(_list) /\ updating' = <<>>)
                => \E e \in Range(_list') : /\ _key'[e] = _key[Updated]
                                            /\ _score'[e] = updating[1].score]_vars

\* The (key, score) pairs of the score list with the pair (k, sc) put
\* immediately before the first pair of a score strictly greater than sc, at
\* the tail when there is none.
WithPairInOrder(k, sc) ==
    LET gt == {i \in 1..Len(ListPairs) : ListPairs[i][2] > sc}
        n == IF gt = {} THEN Len(ListPairs) ELSE Min(gt) - 1
    IN SubSeq(ListPairs, 1, n) \o <<<<k, sc>>>>
          \o SubSeq(ListPairs, n + 1, Len(ListPairs))

\* C22: insert_ordered links the entry immediately before the first entry
\* of the score list whose score is strictly greater, at the tail when there
\* is none (after the entries of its own score, which were linked earlier),
\* and never through the push_front that follows the scan: in insert, and
\* where a call that changes a score links the entry again.
C22_OrderedInsertion ==
    [][/\ (op'.name = "insert" /\ updating = <<>> /\ updating' = <<>>) =>
              /\ Pairs(State', _list') = WithPairInOrder(op'.args[1], op'.args[2])
              /\ insert_ordered_branch(_list, Len(_key) + 1,
                                       Append(_score, op'.args[2]))
                    # "push_front after the scan"
       /\ (updating # <<>> /\ updating' = <<>>) =>
              /\ Pairs(State', _list')
                    = WithPairInOrder(_key[Updated], _score[Updated])
              /\ insert_ordered_branch(_list, Updated, _score)
                    # "push_front after the scan"]_vars

\* insert has linked an entry right after an entry of the same score and
\* another key, and before an entry of a greater score.
C22_Witness ==
    /\ op.name = "insert"
    /\ \E i \in 1..(Len(_list) - 2) :
          /\ _score[_list[i]] = op.args[2]
          /\ _key[_list[i]] # op.args[1]
          /\ _key[_list[i + 1]] = op.args[1]
          /\ _score[_list[i + 1]] = op.args[2]
          /\ _score[_list[i + 2]] > op.args[2]

\* C23: next() of the combined reader calls next() on one reader, the one
\* current() read the entry from (_current): that reader is where its own
\* next() takes it, and every other reader is as it was.
C23_NextAdvancesCurrentOnly ==
    [][op'.name = "next" =>
          \A t \in 1..Len(_readers) :
              _readers'[t] =
                  IF t = _current
                  THEN sstable_next(t, [rd |-> _readers[t],
                                        cache |-> _block_cache]).rd
                  ELSE _readers[t]]_vars

\* After seek_to_first and one next, one reader is at the second entry of
\* its table and another still at the first of its own.
C23_Witness ==
    /\ op.name = "next"
    /\ walk = "first"
    /\ Len(emitted) = 2
    /\ \E t, u \in 1..Len(_readers) :
          /\ t # u
          /\ Len(TableAll(t)) >= 2
          /\ sstable_current(_readers[t]) = TableAll(t)[2]
          /\ sstable_current(_readers[u]) = TableAll(u)[1]

\* The readers of the combined reader that are not exhausted.
LiveReaders == {t \in 1..Len(_readers) : ~sstable_eof(_readers[t])}

\* C24: after seek_to_first or seek(target) of a combined reader, while some
\* reader has an entry, _current is a reader that is not exhausted and its
\* key is the smallest of the keys such readers are at.
C24_SmallestOfLive ==
    (op.name \in {"seek_to_first", "seek"} /\ LiveReaders # {}) =>
        /\ _current \in LiveReaders
        /\ \A t \in LiveReaders :
              compare(combined_current(_readers, _current).key,
                      sstable_current(_readers[t]).key) <= 0

\* The metaindex block of file f has an entry for the filter of the policy.
HasFilterEntry(f) == \E i \in 1..Len(f.meta) : f.meta[i].key = FilterKey

\* C25: with a filter policy, the open of a file whose metaindex block has
\* no entry of key "filter." + the policy's name completes with the table
\* once the metaindex block is read: no filter block is read, whatever other
\* entries the metaindex block holds.
C25_AbsentFilterEntry ==
    [][(/\ op'.name = "open_sstable"
        /\ op'.args[2]
        /\ op'.args[3] = "meta"
        /\ op'.args[4] = "ok"
        /\ ~HasFilterEntry(op'.args[1]))
          => /\ op'.ret = "table"
             /\ \A o \in opening' \ opening : o.phase # "filter"]_vars

\* The last parse_next_key of reader r met an entry that does not decode:
\* r is at an offset below the restart array where decode_entry fails or
\* `shared` is larger than the key r holds.
MetCorruptEntry(r) ==
    /\ r._current_offset < restarts_(r._block)
    /\ LET d == decode_entry(r._block, r._current_offset, restarts_(r._block))
       IN ~d.ok \/ Len(r._current.key) < d.shared

\* C26: when seek_to_first, seek or next of a block_reader meets an entry
\* that does not decode, eof() is true after the call, so that the loop
\* `while (!eof()) next()` ends and current() is not read again.
C26_CorruptEntryInvalidates ==
    (/\ op.name \in {"block_seek_to_first", "block_seek", "block_next"}
     /\ MetCorruptEntry(it))
        => block_eof(it)

\* C27: on a set whose dictionary and score list agree, erase(key) removes
\* the entry of key, if there is one, from the dictionary and from the score
\* list, links no released entry, and leaves every other entry in both; for
\* a key that is not in the set nothing changes.
C27_EraseStep(k) ==
    C1_DictAndListAgree =>
        /\ ~crashed'
        /\ ListPairs' = SelectSeq(ListPairs, LAMBDA p : p[1] # k)
        /\ DictPairs' = {p \in DictPairs : p[1] # k}
        /\ (Range(_list') \cup _dict') \cap freed' = {}

C27_EraseKey == [][op'.name = "erase" => C27_EraseStep(op'.args[1])]_vars

\* C28: after a flush_all that returned, both indexes are empty: size() is
\* 0, empty() is true, the dictionary links nothing, and score(key),
\* rank(key) and count_by_score find no entry, whatever the key and the
\* range.
C28_FlushedIsEmpty ==
    (op.name = "flush_all" /\ ~crashed) =>
        /\ size(State) = 0
        /\ empty(State)
        /\ _dict = {}
        /\ \A k \in Keys, uaf \in UafOutcomes :
              /\ score(State, k) = <<>>
              /\ rank(State, k, uaf).ret = <<>>
        /\ \A min \in Scores, max \in Scores, uaf \in UafOutcomes :
              count_by_score(State, min, max, uaf).ret = 0

====
